---- MODULE Spec2Model ----
(***************************************************************************)
(* A model of mddocproc's rule engine (src/mddocproc/_rules.py) and of its *)
(* Document (src/mddocformatter/_document.py).                             *)
(*                                                                         *)
(* Text is a sequence of one-character strings, so that spans, pointers    *)
(* and lengths are those of the Python strings.  Offsets named pointer,    *)
(* start and end are Python's: 0-based, end exclusive.                     *)
(* The three regular expressions live in mddocproc/_consts.py, which is    *)
(* not part of the sources at hand: their matchers are written from the    *)
(* token shapes the specification gives.                                   *)
(***************************************************************************)
EXTENDS Integers, Sequences, FiniteSets, TLC

VARIABLES
    input_path,         \* Document.input_path (text of the path)
    target_path,        \* Document.target_path
    original_contents,  \* Document.original_contents
    contents,           \* Document.contents
    root_directory,     \* context.settings.root_directory
    target_directory,   \* context.settings.target_directory (<<>>: none)
    macros,             \* context.settings.macros
    fs,                 \* the paths that exist on disk
    documents,          \* the input paths of the context's documents
    context_target,     \* context.target (<<>>: the attribute is not set)
    process,            \* the processing run: catalog, position, the other documents
    scan,               \* a scan loop taken one iteration at a time
    calls,              \* history: the rules called so far, in order
    ran,                \* history: did the last call run its transform
    raised,             \* history: did the last call raise to its caller
    prev,               \* history: contents and target_path before the last call
    trace               \* history: what the last apply_macros did

vars == <<input_path, target_path, original_contents, contents, root_directory,
          target_directory, macros, fs, documents, context_target, process, scan,
          calls, ran, raised, prev, trace>>

-----------------------------------------------------------------------------
(* Bounds of the model. *)

\* links per generated document (link scenario)
MaxLinks == 2
\* pieces per generated document (macro scenario)
MaxPieces == 2
\* rule calls per behaviour
MaxCalls == 2
\* lines per generated document (table-of-contents scenario)
MaxTocLines == 3
\* lines per generated document (changes scenario)
MaxDiffLines == 2
\* the passes of a run, FIRST..MaxPass
MaxPass == 2
\* pieces per generated document (scan scenario)
MaxScanPieces == 2
\* the characters a scanned text may grow by before it is no longer followed:
\* more than the two brackets a sanitised link gains, for every piece
MaxGrowth == 2 * MaxScanPieces + 1
\* the steps a scan is followed for: a search and a body for each token of the
\* document and for the one token its expansion may hold, and the last search
MaxSteps == 4 * MaxScanPieces + 2

-----------------------------------------------------------------------------
(* Text helpers: Python's str operations on sequences of characters. *)

Min(a, b) == IF a < b THEN a ELSE b

\* s[a:b] with Python's clamping; a, b >= 0
Slice(s, a, b) == SubSeq(s, Min(a, Len(s)) + 1, Min(b, Len(s)))

\* s[a:]
SliceFrom(s, a) == Slice(s, a, Len(s))

\* the least member of a set of positive numbers, 0 when it is empty
MinOrZero(S) == IF S = {} THEN 0 ELSE CHOOSE j \in S : \A k \in S : j <= k

\* the least 1-based index >= i of a character of cs in s, 0 when there is none
IndexFrom(s, i, cs) == MinOrZero({j \in i..Len(s) : s[j] \in cs})

RECURSIVE Concat(_)
\* "".join(parts)
Concat(parts) == IF parts = <<>> THEN <<>> ELSE Head(parts) \o Concat(Tail(parts))

RECURSIVE SplitOn(_, _)
\* s.split(c), the first c of s being at 1-based index j (0: none)
SplitAt(s, c, j) ==
    IF j = 0 THEN <<s>>
    ELSE <<SubSeq(s, 1, j - 1)>> \o SplitOn(SubSeq(s, j + 1, Len(s)), c)

\* s.split(c)
SplitOn(s, c) == SplitAt(s, c, IndexFrom(s, 1, {c}))

Whitespace == {" "}

RECURSIVE LStrip(_)
LStrip(s) == IF s # <<>> /\ Head(s) \in Whitespace THEN LStrip(Tail(s)) ELSE s

RECURSIVE RStrip(_)
RStrip(s) ==
    IF s # <<>> /\ s[Len(s)] \in Whitespace THEN RStrip(SubSeq(s, 1, Len(s) - 1)) ELSE s

\* s.strip()
Strip(s) == LStrip(RStrip(s))

EndsWith(s, suffix) ==
    Len(suffix) <= Len(s) /\ SubSeq(s, Len(s) - Len(suffix) + 1, Len(s)) = suffix

-----------------------------------------------------------------------------
(* urllib.parse.unquote and the pathlib / os.path operations the rules use. *)

RECURSIVE unquote(_)
\* "%20" decodes to a space; a "%" that starts no escape of the alphabet stays
unquote(s) ==
    IF s = <<>> THEN <<>>
    ELSE IF Len(s) >= 3 /\ s[1] = "%" /\ s[2] = "2" /\ s[3] = "0"
         THEN <<" ">> \o unquote(SubSeq(s, 4, Len(s)))
         ELSE <<Head(s)>> \o unquote(Tail(s))

\* the components of a path text: empty and "." components are dropped
PathParts(p) == SelectSeq(SplitOn(p, "/"), LAMBDA c : c # <<>> /\ c # <<".">>)

IsAbsolute(p) == p # <<>> /\ p[1] = "/"

\* Path.parent, on components
Parent(parts) == IF parts = <<>> THEN <<>> ELSE SubSeq(parts, 1, Len(parts) - 1)

RECURSIVE Normalise(_, _)
\* Path.resolve() on an absolute path without symbolic links: ".." climbs
Normalise(done, rest) ==
    IF rest = <<>> THEN done
    ELSE IF Head(rest) = <<".", ".">>
         THEN Normalise(Parent(done), Tail(rest))
         ELSE Normalise(Append(done, Head(rest)), Tail(rest))

\* Path(parent).joinpath(link).resolve(), as components
ResolveLink(parent, link) ==
    IF IsAbsolute(link) THEN Normalise(<<>>, PathParts(link))
    ELSE Normalise(<<>>, parent \o PathParts(link))

\* Path.exists(): the root always exists
PathExists(parts) == parts = <<>> \/ parts \in fs

-----------------------------------------------------------------------------
(* Regular expression search: _get_next_match and _replace_span. *)

NoMatch == [found |-> FALSE, start |-> 0, end |-> 0, g1 |-> <<>>, g2 |-> <<>>]

\* regex_markdown_link at 1-based position i: "[" text "](" "<"? target ">"? ")"
\* the text holds no "]", the target none of "<", ">", ")"
\* rb: the first "]" after i; b: where the target starts; e: the first of
\* ")", "<", ">" from b on
LinkClose(s, i, rb, b, e) ==
    IF e # 0 /\ s[e] = ")"
    THEN [found |-> TRUE, start |-> i - 1, end |-> e,
          g1 |-> SubSeq(s, i + 1, rb - 1), g2 |-> SubSeq(s, b, e - 1)]
    ELSE IF e # 0 /\ s[e] = ">" /\ e + 1 <= Len(s) /\ s[e + 1] = ")"
         THEN [found |-> TRUE, start |-> i - 1, end |-> e + 1,
               g1 |-> SubSeq(s, i + 1, rb - 1), g2 |-> SubSeq(s, b, e - 1)]
         ELSE NoMatch

LinkTarget(s, i, rb, b) == LinkClose(s, i, rb, b, IndexFrom(s, b, {")", "<", ">"}))

LinkText(s, i, rb) ==
    IF rb = 0 \/ rb + 1 > Len(s) \/ s[rb + 1] # "(" THEN NoMatch
    ELSE LinkTarget(s, i, rb, IF rb + 2 <= Len(s) /\ s[rb + 2] = "<" THEN rb + 3 ELSE rb + 2)

MatchLinkAt(s, i) ==
    IF i < 1 \/ i > Len(s) \/ s[i] # "[" THEN NoMatch
    ELSE LinkText(s, i, IndexFrom(s, i + 1, {"]"}))

\* the characters a macro name is made of: the letters of the alphabet in use
NameChars == {"a", "b", "c", "d", "e", "f", "g", "h", "i", "l", "n", "t", "u",
              "x", "z", "H", "I", "Z"}

\* the characters of s that cannot be part of a macro name
NonName(s) == {s[j] : j \in 1..Len(s)} \ NameChars

\* regex_const_macro at 1-based position i: "${" name "}"
\* a token opens at 1-based position i: "${" and the first letter of a name
TokenOpensAt(s, i) ==
    i >= 1 /\ i + 2 <= Len(s) /\ s[i] = "$" /\ s[i + 1] = "{" /\ s[i + 2] \in NameChars

\* e: the first character after the name
ConstClose(s, i, e) ==
    IF e = 0 \/ s[e] # "}" THEN NoMatch
    ELSE [found |-> TRUE, start |-> i - 1, end |-> e,
          g1 |-> SubSeq(s, i + 2, e - 1), g2 |-> <<>>]

MatchConstAt(s, i) ==
    IF ~TokenOpensAt(s, i) THEN NoMatch
    ELSE ConstClose(s, i, IndexFrom(s, i + 2, NonName(s)))

\* regex_function_macro at 1-based position i: "${" name "(" args ")}"
\* the args hold no ")"
\* p: the "(" after the name; q: the first ")" after it
FunctionClose(s, i, p, q) ==
    IF q = 0 \/ q + 1 > Len(s) \/ s[q + 1] # "}" THEN NoMatch
    ELSE [found |-> TRUE, start |-> i - 1, end |-> q + 1,
          g1 |-> SubSeq(s, i + 2, p - 1), g2 |-> SubSeq(s, p + 1, q - 1)]

\* p: the first character after the name
FunctionArgs(s, i, p) ==
    IF p = 0 \/ s[p] # "(" THEN NoMatch
    ELSE FunctionClose(s, i, p, IndexFrom(s, p + 1, {")"}))

MatchFunctionAt(s, i) ==
    IF ~TokenOpensAt(s, i) THEN NoMatch
    ELSE FunctionArgs(s, i, IndexFrom(s, i + 2, NonName(s)))

MatchAt(regex, s, i) ==
    CASE regex = "regex_markdown_link" -> MatchLinkAt(s, i)
      [] regex = "regex_const_macro" -> MatchConstAt(s, i)
      [] regex = "regex_function_macro" -> MatchFunctionAt(s, i)

\* re.search(regex, text[pointer:]), the span shifted back by pointer
_get_next_match(text, pointer, regex) ==
    MatchAt(regex, text,
            MinOrZero({i \in (pointer + 1)..Len(text) : MatchAt(regex, text, i).found}))

_replace_span(text, start, end, replacement) ==
    Slice(text, 0, start) \o replacement \o SliceFrom(text, end)

-----------------------------------------------------------------------------
(* Link sanitization. *)

\* f"[{text}](<{link}>)"
Canonical(text, link) == <<"[">> \o text \o <<"]", "(", "<">> \o link \o <<">", ")">>

\* a sanitizer that takes every target to exist
LinkExistsAlways(link) == TRUE

\* Path(document.input_path.parent).joinpath(link).resolve().exists()
LinkExists(link) == PathExists(ResolveLink(Parent(PathParts(input_path)), link))

RECURSIVE SanitizeLoop(_, _)
\* the while loop of santize_internal_links: the pointer is set to the end of
\* the match as it was found, before the span is replaced
SanitizeLink(text, m, link) ==
    IF LinkExists(link)
    THEN SanitizeLoop(_replace_span(text, m.start, m.end, Canonical(m.g1, link)), m.end)
    ELSE SanitizeLoop(text, m.end)

SanitizeMatch(text, m) == IF ~m.found THEN text ELSE SanitizeLink(text, m, unquote(m.g2))

SanitizeLoop(text, pointer) ==
    IF ~(pointer < Len(text)) THEN text
    ELSE SanitizeMatch(text, _get_next_match(text, pointer, "regex_markdown_link"))

NoTrace == [const_out |-> <<>>, const_splices |-> {}, func_splices |-> {},
            invocations |-> {}]

\* what a transform leaves: the document's fields, whether it raised, its trace
Outcome(c, t, r, tr) ==
    [contents |-> c, target_path |-> t, raised |-> r, trace |-> tr,
     context_target |-> context_target]

santize_internal_links == Outcome(SanitizeLoop(contents, 0), target_path, FALSE, NoTrace)

-----------------------------------------------------------------------------
(* Rule dispatch: DocumentRule. *)

RECURSIVE fnmatch(_, _)
\* fnmatch.fnmatch(name, pattern) on a case-sensitive file system, for patterns
\* of literal characters, "*" and "?"
fnmatch(name, pattern) ==
    IF pattern = <<>> THEN name = <<>>
    ELSE IF Head(pattern) = "*"
         THEN fnmatch(name, Tail(pattern)) \/ (name # <<>> /\ fnmatch(Tail(name), pattern))
         ELSE /\ name # <<>>
              /\ Head(pattern) = "?" \/ Head(pattern) = Head(name)
              /\ fnmatch(Tail(name), Tail(pattern))

\* the file_filter each rule is decorated with
file_filter(rule) ==
    CASE rule = "santize_internal_links" -> <<"*", ".", "m", "d">>
      [] rule = "apply_macros" -> <<"*", ".", "m", "d">>
      [] rule = "move_to_target_dir_relative" -> <<"*", ".", "*">>
      [] rule = "rename_uniquely_for_confluence" -> <<"*", ".", "m", "d">>
      [] rule = "create_table_of_contents" -> <<"*", ".", "m", "d">>

\* a filter matched against the target path
AppliesToTargetPath(rule) == fnmatch(target_path, file_filter(rule))

\* DocumentRule._applies
_applies(rule) == fnmatch(input_path, file_filter(rule))

-----------------------------------------------------------------------------
(* The macro engine: apply_macros. *)

\* a macro table entry: a plain string, or a callable of `arity` positional
\* string parameters whose body upper-cases its argument ("upper"), returns a
\* fixed string ("value") or raises ("raise")
ConstMacro(v) == [kind |-> "const", value |-> v, arity |-> 0, body |-> "value"]
FunctionMacro(n, b, v) == [kind |-> "func", value |-> v, arity |-> n, body |-> b]

callable(macro) == macro.kind = "func"

Upper(ch) == CASE ch = "h" -> "H" [] ch = "i" -> "I" [] OTHER -> ch

\* macro(*args): a wrong number of positional arguments is a TypeError
Invoke(macro, args) ==
    IF Len(args) # macro.arity \/ macro.body = "raise" THEN [ok |-> FALSE, value |-> <<>>]
    ELSE IF macro.body = "upper"
         THEN [ok |-> TRUE, value |-> [j \in 1..Len(args[1]) |-> Upper(args[1][j])]]
         ELSE [ok |-> TRUE, value |-> macro.value]

\* a scan that resumes behind the replacement, and so never expands it
ResumeBehindReplacement(m, replacement) == m.start + Len(replacement)

\* where the scan resumes after a replacement at match m: pointer = start
ResumeAfterReplace(m, replacement) == m.start

RECURSIVE ConstLoop(_, _, _)
\* the while loop of _replace_const_macros; splices gathers the offsets
\* at which a span was replaced
ConstMatch(text, m, splices) ==
    IF ~m.found THEN [contents |-> text, splices |-> splices]
    ELSE IF m.g1 \in DOMAIN macros /\ ~callable(macros[m.g1])
         THEN ConstLoop(_replace_span(text, m.start, m.end, macros[m.g1].value),
                        ResumeAfterReplace(m, macros[m.g1].value),
                        splices \cup {m.start})
         ELSE ConstLoop(text, m.end, splices)

ConstLoop(text, pointer, splices) ==
    IF ~(pointer < Len(text)) THEN [contents |-> text, splices |-> splices]
    ELSE ConstMatch(text, _get_next_match(text, pointer, "regex_const_macro"), splices)

_replace_const_macros(text) == ConstLoop(text, 0, {})

\* map(lambda x: x.strip(), pieces)
StripAll(pieces) == [j \in 1..Len(pieces) |-> Strip(pieces[j])]

_extract_args(value) == IF value # <<>> THEN StripAll(SplitOn(value, ",")) ELSE <<>>

\* an invocation without the try: the exception leaves the function
InvokeUnguarded(r) ==
    IF r.ok THEN [success |-> TRUE, value |-> r.value, raised |-> FALSE]
    ELSE [success |-> FALSE, value |-> <<>>, raised |-> TRUE]

\* try: return True, macro(*args); except Exception: log, fall to False, None
TryInvoke(r) ==
    IF r.ok THEN [success |-> TRUE, value |-> r.value, raised |-> FALSE]
    ELSE [success |-> FALSE, value |-> <<>>, raised |-> FALSE]

\* (success, value); raised tells an exception that leaves the function
_run_function_macro(functionName, args) ==
    IF callable(macros[functionName])
    THEN TryInvoke(Invoke(macros[functionName], args))
    ELSE [success |-> FALSE, value |-> <<>>, raised |-> FALSE]

RECURSIVE FunctionLoop(_, _, _, _)
\* the while loop of _replace_function_macros; invocations gathers the calls
\* made: the macro, the argument text of the token and the arguments passed
EndOfLoop(text, splices, invocations, exc) ==
    [contents |-> text, splices |-> splices, invocations |-> invocations, raised |-> exc]

\* r: what _run_function_macro returned for match m
FunctionResult(text, m, splices, invocations, r) ==
    IF r.raised THEN EndOfLoop(text, splices, invocations, TRUE)
    ELSE IF r.success
         THEN FunctionLoop(_replace_span(text, m.start, m.end, r.value),
                           ResumeAfterReplace(m, r.value),
                           splices \cup {m.start}, invocations)
         ELSE FunctionLoop(text, m.end, splices, invocations)

\* args: what _extract_args returned for match m
FunctionCall(text, m, splices, invocations, args) ==
    FunctionResult(text, m, splices,
                   IF callable(macros[m.g1])
                   THEN invocations \cup {[name |-> m.g1, raw |-> m.g2, args |-> args]}
                   ELSE invocations,
                   _run_function_macro(m.g1, args))

FunctionMatch(text, m, splices, invocations) ==
    IF ~m.found THEN EndOfLoop(text, splices, invocations, FALSE)
    ELSE IF m.g1 \in DOMAIN macros
         THEN FunctionCall(text, m, splices, invocations, _extract_args(m.g2))
         ELSE FunctionLoop(text, m.end, splices, invocations)

FunctionLoop(text, pointer, splices, invocations) ==
    IF ~(pointer < Len(text)) THEN EndOfLoop(text, splices, invocations, FALSE)
    ELSE FunctionMatch(text, _get_next_match(text, pointer, "regex_function_macro"),
                       splices, invocations)

_replace_function_macros(text) == FunctionLoop(text, 0, {}, {})

\* c, f: what the two passes left
MacrosOutcome(c, f) ==
    Outcome(f.contents, target_path, f.raised,
            [const_out |-> c.contents, const_splices |-> c.splices,
             func_splices |-> f.splices, invocations |-> f.invocations])

FunctionPass(c) == MacrosOutcome(c, _replace_function_macros(c.contents))

apply_macros == FunctionPass(_replace_const_macros(contents))

-----------------------------------------------------------------------------
(* Target-path rules. *)

Rep(n, x) == [j \in 1..n |-> x]

RECURSIVE JoinWith(_, _)
\* sep.join(parts)
JoinWith(parts, sep) ==
    IF parts = <<>> THEN <<>>
    ELSE IF Len(parts) = 1 THEN parts[1]
    ELSE parts[1] \o sep \o JoinWith(Tail(parts), sep)

MaxOf(S) == CHOOSE n \in S : \A k \in S : k <= n

\* the number of leading components two paths share
CommonLen(p, q) ==
    MaxOf({n \in 0..Min(Len(p), Len(q)) : SubSeq(p, 1, n) = SubSeq(q, 1, n)})

RelText(rel) == IF rel = <<>> THEN <<".">> ELSE JoinWith(rel, <<"/">>)

\* p seen from q, i leading components being shared
RelFrom(p, q, i) == RelText(Rep(Len(q) - i, <<".", ".">>) \o SubSeq(p, i + 1, Len(p)))

RelParts(p, q) == RelFrom(p, q, CommonLen(p, q))

\* os.path.relpath(path, start) for absolute paths: path as seen from start
relpath(path, start) ==
    RelParts(Normalise(<<>>, PathParts(path)), Normalise(<<>>, PathParts(start)))

\* os.path.join(a, b)
os_path_join(a, b) ==
    IF IsAbsolute(b) THEN b
    ELSE IF a = <<>> \/ a[Len(a)] = "/" THEN a \o b
    ELSE a \o <<"/">> \o b

\* the rel_path move_to_target_dir_relative computes
MoveRelPath == relpath(root_directory, input_path)

move_to_target_dir_relative ==
    IF target_directory # <<>> /\ root_directory # target_directory
    THEN Outcome(contents, os_path_join(target_directory, MoveRelPath), FALSE, NoTrace)
    ELSE Outcome(contents, target_path, FALSE, NoTrace)

\* context.settings.version_name
version_name == <<"v">>

RECURSIVE Replace(_, _, _)
\* s.replace(old, new), old not empty
Replace(s, old, new) ==
    IF Len(s) < Len(old) THEN s
    ELSE IF SubSeq(s, 1, Len(old)) = old
         THEN new \o Replace(SubSeq(s, Len(old) + 1, Len(s)), old, new)
         ELSE <<Head(s)>> \o Replace(Tail(s), old, new)

\* the 1-based index of the last "/" of p, 0 when there is none
LastSep(p) == IF \A j \in 1..Len(p) : p[j] # "/" THEN 0
              ELSE CHOOSE j \in 1..Len(p) : p[j] = "/" /\ \A k \in (j + 1)..Len(p) : p[k] # "/"

RECURSIVE RStripSep(_)
RStripSep(p) ==
    IF p # <<>> /\ p[Len(p)] = "/" THEN RStripSep(SubSeq(p, 1, Len(p) - 1)) ELSE p

\* head: p up to and with its last "/"
DirnameOf(head) == IF RStripSep(head) = <<>> THEN head ELSE RStripSep(head)

\* os.path.dirname(p)
dirname(p) == DirnameOf(SubSeq(p, 1, LastSep(p)))

\* os.path.basename(p)
basename(p) == SubSeq(p, LastSep(p) + 1, Len(p))

LowerChar(ch) ==
    CASE ch = "R" -> "r" [] ch = "E" -> "e" [] ch = "A" -> "a" [] ch = "D" -> "d"
      [] ch = "M" -> "m" [] ch = "L" -> "l" [] ch = "H" -> "h" [] ch = "I" -> "i"
      [] ch = "Z" -> "z" [] OTHER -> ch

\* s.lower()
Lower(s) == [j \in 1..Len(s) |-> LowerChar(s[j])]

RECURSIVE JoinAll(_, _)
\* os.path.join(a, *parts)
JoinAll(a, parts) ==
    IF parts = <<>> THEN a ELSE JoinAll(os_path_join(a, Head(parts)), Tail(parts))

\* parts[:-1]
ButLast(parts) == SubSeq(parts, 1, Len(parts) - 1)

\* parts[:-1] + [" - ".join(named) + ".md"]
RenamedParts(parts, named) ==
    Append(ButLast(parts), JoinWith(named, <<" ", "-", " ">>) \o <<".", "m", "d">>)

\* the parts of the renamed file: an index document is named after the chain
\* above it, any other after the chain and itself
RenameParts(parts, parent_dir, base) ==
    IF Lower(base) = <<"r", "e", "a", "d", "m", "e", ".", "m", "d">>
       \/ base = parent_dir \o <<".", "m", "d">>
    THEN RenamedParts(parts, ButLast(parts))
    ELSE RenamedParts(parts, parts)

\* rel_path: the relative path with every ".md" removed
RenameOf(rel_path) ==
    RenameParts(<<version_name>> \o SplitOn(rel_path, "/"),
                dirname(dirname(rel_path)), basename(input_path))

\* what rename_uniquely_for_confluence assigns to context.target
RenameTarget ==
    JoinAll(target_directory,
            RenameOf(Replace(relpath(root_directory, input_path), <<".", "m", "d">>, <<>>)))

\* os.path.join raises TypeError when no target directory is configured;
\* otherwise the new path goes to context.target and the document is as it was
rename_uniquely_for_confluence ==
    IF target_directory = <<>>
    THEN Outcome(contents, target_path, TRUE, NoTrace)
    ELSE [Outcome(contents, target_path, FALSE, NoTrace)
              EXCEPT !.context_target = RenameTarget]

-----------------------------------------------------------------------------
(* The table of contents. *)

NL == "\n"

TABLE_OF_CONTENTS_VARIABLE ==
    <<"$", "{", "c", "r", "e", "a", "t", "e", "_", "t", "a", "b", "l", "e", "_", "o", "f",
      "_", "c", "o", "n", "t", "e", "n", "t", "s", "}">>

RECURSIVE LStripHash(_)
\* line.lstrip("#")
LStripHash(s) == IF s # <<>> /\ Head(s) = "#" THEN LStripHash(Tail(s)) ELSE s

\* _utils.format_markdown_link(text, link)
format_markdown_link(text, link) == <<"[">> \o text \o <<"]", "(">> \o link \o <<")">>

_calculate_toc_indent_for_heading(line) ==
    (IF Len(line) - Len(LStripHash(line)) - 1 > 0
     THEN Len(line) - Len(LStripHash(line)) - 1 ELSE 0) * 2

\* stripped: the heading without its "#" and the blanks around it
TocLink(stripped) ==
    <<" ", "-", " ">> \o format_markdown_link(stripped, <<"#">> \o stripped)

\* (indent_size, entry) of a heading line
TocEntry(line) ==
    [indent |-> _calculate_toc_indent_for_heading(line),
     text |-> TocLink(Strip(LStripHash(line)))]

\* the stripped lines that are headings
Headings(lines) == SelectSeq(StripAll(lines), LAMBDA l : l # <<>> /\ Head(l) = "#")

\* min(x[0] for x in table_entries) if table_entries else 0
SmallestIndent(entries) ==
    IF entries = <<>> THEN 0
    ELSE CHOOSE n \in {entries[j].indent : j \in 1..Len(entries)} :
             \A j \in 1..Len(entries) : n <= entries[j].indent

\* "\n".join of the entries, each shifted left by the smallest indent
TocJoin(entries, smallest_indent) ==
    JoinWith([j \in 1..Len(entries) |->
                  Rep(entries[j].indent - smallest_indent, " ") \o entries[j].text],
             <<NL>>)

TocOfEntries(entries) == TocJoin(entries, SmallestIndent(entries))

TocOfHeadings(headings) ==
    TocOfEntries([j \in 1..Len(headings) |-> TocEntry(headings[j])])

_create_toc_from_sections(lines) == TocOfHeadings(Headings(lines))

\* TABLE_OF_CONTENTS_VARIABLE in line
Contains(s, sub) ==
    \E j \in 1..(Len(s) - Len(sub) + 1) : SubSeq(s, j, j + Len(sub) - 1) = sub

\* the loop body of create_table_of_contents for line i of lines
TocLine(lines, i) ==
    IF Contains(lines[i], TABLE_OF_CONTENTS_VARIABLE)
    THEN Replace(lines[i], TABLE_OF_CONTENTS_VARIABLE,
                 _create_toc_from_sections(SubSeq(lines, i + 1, Len(lines))))
    ELSE lines[i]

\* "\n".join(processed)
TocLines(lines) == JoinWith([i \in 1..Len(lines) |-> TocLine(lines, i)], <<NL>>)

create_table_of_contents ==
    Outcome(TocLines(SplitOn(contents, NL)), target_path, FALSE, NoTrace)

-----------------------------------------------------------------------------
(* Document.unchanged and Document.changes. *)

unchanged == original_contents = contents

\* difflib.SequenceMatcher.find_longest_match on a[alo:ahi], b[blo:bhi]
\* (0-based, end exclusive): the matching blocks [i, j, k] of k >= 1 lines
CommonBlocks(a, alo, ahi, b, blo, bhi) ==
    {blk \in [i : alo..(ahi - 1), j : blo..(bhi - 1), k : 1..(ahi - alo)] :
        /\ blk.i + blk.k <= ahi
        /\ blk.j + blk.k <= bhi
        /\ SubSeq(a, blk.i + 1, blk.i + blk.k) = SubSeq(b, blk.j + 1, blk.j + blk.k)}

\* the longest block; of the longest, the first in a; of those, the first in b
LongestOf(S) ==
    CHOOSE m \in S : \A o \in S :
        \/ m.k > o.k
        \/ m.k = o.k /\ m.i < o.i
        \/ m.k = o.k /\ m.i = o.i /\ m.j <= o.j

RECURSIVE MatchingBlocks(_, _, _, _, _, _)
\* m: the longest match of the window; the windows left and right of it follow
BlocksAround(a, alo, ahi, b, blo, bhi, m) ==
    (IF alo < m.i /\ blo < m.j THEN MatchingBlocks(a, alo, m.i, b, blo, m.j) ELSE <<>>)
    \o <<m>> \o
    (IF m.i + m.k < ahi /\ m.j + m.k < bhi
     THEN MatchingBlocks(a, m.i + m.k, ahi, b, m.j + m.k, bhi) ELSE <<>>)

BlocksOf(a, alo, ahi, b, blo, bhi, S) ==
    IF S = {} THEN <<>> ELSE BlocksAround(a, alo, ahi, b, blo, bhi, LongestOf(S))

\* SequenceMatcher.get_matching_blocks, without its closing sentinel
MatchingBlocks(a, alo, ahi, b, blo, bhi) ==
    BlocksOf(a, alo, ahi, b, blo, bhi, CommonBlocks(a, alo, ahi, b, blo, bhi))

\* the lines, each with the one-character tag of its opcode in front
Tagged(tag, lines) == [n \in 1..Len(lines) |-> <<tag>> \o lines[n]]

\* the context lines unified_diff keeps on each side of a change
ContextLines == 3

\* the lines of an "equal" opcode: the one that opens the diff keeps its last
\* ContextLines lines, the one that closes it its first ContextLines lines
EqualLines(a, m, la, lb) ==
    IF m.i = 0 /\ m.j = 0 /\ m.k > ContextLines
    THEN SubSeq(a, m.k - ContextLines + 1, m.k)
    ELSE IF m.i + m.k = la /\ m.j + m.k = lb /\ m.k > ContextLines
         THEN SubSeq(a, m.i + 1, m.i + ContextLines)
         ELSE SubSeq(a, m.i + 1, m.i + m.k)

RECURSIVE DiffBody(_, _, _, _, _)
\* the lines of the opcodes from (i, j) on: between two matching blocks the
\* lines of a are removed, then those of b added
DiffBody(a, b, blocks, i, j) ==
    IF blocks = <<>>
    THEN Tagged("-", SubSeq(a, i + 1, Len(a))) \o Tagged("+", SubSeq(b, j + 1, Len(b)))
    ELSE Tagged("-", SubSeq(a, i + 1, Head(blocks).i))
         \o Tagged("+", SubSeq(b, j + 1, Head(blocks).j))
         \o Tagged(" ", EqualLines(a, Head(blocks), Len(a), Len(b)))
         \o DiffBody(a, b, Tail(blocks), Head(blocks).i + Head(blocks).k,
                     Head(blocks).j + Head(blocks).k)

\* str(n) for one-digit n
Digit(n) == <<"0", "1", "2", "3", "4", "5", "6", "7", "8", "9">>[n + 1]

\* difflib._format_range_unified(start, stop)
FormatRange(start, stop) ==
    IF stop - start = 1 THEN <<Digit(start + 1)>>
    ELSE IF stop - start = 0 THEN <<Digit(start), ",", Digit(0)>>
    ELSE <<Digit(start + 1), ",", Digit(stop - start)>>

\* the equal lines dropped at the start and at the end of the diff
Lead(blocks) ==
    IF blocks # <<>> /\ blocks[1].i = 0 /\ blocks[1].j = 0 /\ blocks[1].k > ContextLines
    THEN blocks[1].k - ContextLines ELSE 0

Trail(blocks, la, lb) ==
    IF blocks # <<>> /\ blocks[Len(blocks)].i + blocks[Len(blocks)].k = la
       /\ blocks[Len(blocks)].j + blocks[Len(blocks)].k = lb
       /\ blocks[Len(blocks)].k > ContextLines
    THEN blocks[Len(blocks)].k - ContextLines ELSE 0

\* "@@ -{} +{} @@" and the line terminator
HunkHeader(a, b, blocks) ==
    <<"@", "@", " ", "-">>
    \o FormatRange(Lead(blocks), Len(a) - Trail(blocks, Len(a), Len(b)))
    \o <<" ", "+">>
    \o FormatRange(Lead(blocks), Len(b) - Trail(blocks, Len(a), Len(b)))
    \o <<" ", "@", "@", NL>>

UnifiedDiffOf(a, b, blocks) ==
    <<<<"-", "-", "-", " ", NL>>, <<"+", "+", "+", " ", NL>>, HunkHeader(a, b, blocks)>>
    \o DiffBody(a, b, blocks, 0, 0)

\* difflib.unified_diff(a, b) of two different line lists in which no run of
\* more than 2 * ContextLines equal lines separates two changes: one hunk
unified_diff(a, b) == UnifiedDiffOf(a, b, MatchingBlocks(a, 0, Len(a), b, 0, Len(b)))

\* if text[:3] not in ('+++', '---', '@@ ')
Retained(text) ==
    SubSeq(text, 1, Min(3, Len(text))) \notin
        {<<"+", "+", "+">>, <<"-", "-", "-">>, <<"@", "@", " ">>}

RECURSIVE ChangesOf(_)
\* result += text + "\n" for the retained lines
ChangesOf(diff) ==
    IF diff = <<>> THEN <<>>
    ELSE (IF Retained(Head(diff)) THEN Head(diff) \o <<NL>> ELSE <<>>)
         \o ChangesOf(Tail(diff))

\* Document.changes
changes ==
    IF ~unchanged
    THEN ChangesOf(unified_diff(SplitOn(original_contents, NL), SplitOn(contents, NL)))
    ELSE <<>>

\* no processing run, no scan under way
NoProcess == [style |-> "none"]
NoScan == [loop |-> "none"]

-----------------------------------------------------------------------------
(* Calling a rule: DocumentRule.__call__. *)

Rules == {"santize_internal_links", "apply_macros", "move_to_target_dir_relative",
          "rename_uniquely_for_confluence", "create_table_of_contents"}

\* self.function(context, document)
Transform(rule) ==
    CASE rule = "santize_internal_links" -> santize_internal_links
      [] rule = "apply_macros" -> apply_macros
      [] rule = "move_to_target_dir_relative" -> move_to_target_dir_relative
      [] rule = "rename_uniquely_for_confluence" -> rename_uniquely_for_confluence
      [] rule = "create_table_of_contents" -> create_table_of_contents

\* out: what the call leaves
CallOutcome(rule, applies, out) ==
    /\ contents' = out.contents
    /\ target_path' = out.target_path
    /\ raised' = out.raised
    /\ trace' = out.trace
    /\ context_target' = out.context_target
    /\ ran' = applies
    /\ calls' = Append(calls, rule)
    /\ prev' = [contents |-> contents, target_path |-> target_path]
    /\ UNCHANGED <<input_path, original_contents, root_directory, target_directory,
                   macros, fs, documents>>

\* if self._applies(document): self.function(context, document)
CallApplies(rule, applies) ==
    CallOutcome(rule, applies,
                IF applies THEN Transform(rule)
                ELSE Outcome(contents, target_path, FALSE, NoTrace))

Call(rule) ==
    /\ Len(calls) < MaxCalls
    /\ CallApplies(rule, _applies(rule))
    /\ UNCHANGED <<process, scan>>

\* a rule of the custom catalog, which reassigns document.contents
CustomRule(text) ==
    /\ calls = <<>>
    /\ CallOutcome("custom", TRUE, Outcome(text, target_path, FALSE, NoTrace))
    /\ UNCHANGED <<process, scan>>

-----------------------------------------------------------------------------
(* The scan loops, one iteration at a time: each iteration searches from the  *)
(* pointer and, on a match, runs the body of the loop.                        *)

ScanLoops == {"santize_internal_links", "_replace_const_macros", "_replace_function_macros"}

\* the regular expression each loop searches for
RegexOf(loop) ==
    CASE loop = "santize_internal_links" -> "regex_markdown_link"
      [] loop = "_replace_const_macros" -> "regex_const_macro"
      [] loop = "_replace_function_macros" -> "regex_function_macro"

\* a link scan that resumes at the start of the match
LinkPointerAtStart(m) == m.start

\* santize_internal_links: pointer = end
LinkPointer(m) == m.end

\* what an iteration leaves: the text and the pointer
Iteration(text, pointer) == [contents |-> text, pointer |-> pointer]

\* the body of the loop of santize_internal_links after a match
LinkBodyOf(text, m, link) ==
    IF LinkExists(link)
    THEN Iteration(_replace_span(text, m.start, m.end, Canonical(m.g1, link)), LinkPointer(m))
    ELSE Iteration(text, LinkPointer(m))

LinkBody(text, m) == LinkBodyOf(text, m, unquote(m.g2))

\* the body of the loop of _replace_const_macros after a match
ConstBody(text, m) ==
    IF m.g1 \in DOMAIN macros /\ ~callable(macros[m.g1])
    THEN Iteration(_replace_span(text, m.start, m.end, macros[m.g1].value),
                   ResumeAfterReplace(m, macros[m.g1].value))
    ELSE Iteration(text, m.end)

\* r: what _run_function_macro returned
FunctionBodyOf(text, m, r) ==
    IF r.success
    THEN Iteration(_replace_span(text, m.start, m.end, r.value), ResumeAfterReplace(m, r.value))
    ELSE Iteration(text, m.end)

\* the body of the loop of _replace_function_macros after a match
FunctionBody(text, m) ==
    IF m.g1 \in DOMAIN macros
    THEN FunctionBodyOf(text, m, _run_function_macro(m.g1, _extract_args(m.g2)))
    ELSE Iteration(text, m.end)

LoopBody(loop, text, m) ==
    CASE loop = "santize_internal_links" -> LinkBody(text, m)
      [] loop = "_replace_const_macros" -> ConstBody(text, m)
      [] loop = "_replace_function_macros" -> FunctionBody(text, m)

\* m: what _get_next_match returned; without a match the loop is left
ScanFound(m) ==
    scan' = [scan EXCEPT !.pc = IF m.found THEN "body" ELSE "done", !.match = m,
                         !.steps = @ + 1]

\* while pointer < len(document.contents): match = _get_next_match(...);
\* if match is None: break
ScanSearch ==
    /\ scan.loop # "none"
    /\ scan.pc = "search"
    /\ scan.steps < MaxSteps
    /\ IF scan.pointer < Len(contents)
       THEN ScanFound(_get_next_match(contents, scan.pointer, RegexOf(scan.loop)))
       ELSE scan' = [scan EXCEPT !.pc = "done", !.steps = @ + 1]
    /\ UNCHANGED <<input_path, target_path, original_contents, contents, root_directory,
                   target_directory, macros, fs, documents, context_target, process,
                   calls, ran, raised, prev, trace>>

\* it: what the body of the loop leaves; a text that has grown by more than
\* MaxGrowth characters is not followed further
ScanIteration(it) ==
    /\ Len(it.contents) <= Len(original_contents) + MaxGrowth
    /\ contents' = it.contents
    /\ scan' = [scan EXCEPT !.pc = "search", !.pointer = it.pointer, !.steps = @ + 1]

\* the rest of the iteration, after a match
ScanBody ==
    /\ scan.loop # "none"
    /\ scan.pc = "body"
    /\ scan.steps < MaxSteps
    /\ ScanIteration(LoopBody(scan.loop, contents, scan.match))
    /\ UNCHANGED <<input_path, target_path, original_contents, root_directory,
                   target_directory, macros, fs, documents, context_target, process,
                   calls, ran, raised, prev, trace>>

-----------------------------------------------------------------------------
(* The processing run: the catalog of a style, applied pass by pass. *)

\* Passes.FIRST, the default pass_index of document_rule
FIRST == 1

\* DocumentRule(function, file_filter, pass_index); the filter is file_filter(name)
DocumentRule(name, pass_index) == [name |-> name, pass_index |-> pass_index]

\* a catalog that lists the macros before the table of contents
GetRulesForStyleMacrosFirst(style) ==
    CASE style = "GITHUB" ->
             <<DocumentRule("santize_internal_links", FIRST),
               DocumentRule("move_to_target_dir_relative", FIRST)>>
      [] style = "CONFLUENCE" ->
             <<DocumentRule("apply_macros", FIRST),
               DocumentRule("create_table_of_contents", FIRST),
               DocumentRule("santize_internal_links", FIRST),
               DocumentRule("rename_uniquely_for_confluence", FIRST)>>
      [] style = "CUSTOM" -> <<>>

GetRulesForStyle(style) ==
    CASE style = "GITHUB" ->
             <<DocumentRule("santize_internal_links", FIRST),
               DocumentRule("move_to_target_dir_relative", FIRST)>>
      [] style = "CONFLUENCE" ->
             <<DocumentRule("create_table_of_contents", FIRST),
               DocumentRule("apply_macros", FIRST),
               DocumentRule("santize_internal_links", FIRST),
               DocumentRule("rename_uniquely_for_confluence", FIRST)>>
      [] style = "CUSTOM" -> <<>>

\* the document the run is working on, as a record
Loaded ==
    [input_path |-> input_path, target_path |-> target_path,
     original_contents |-> original_contents, contents |-> contents]

\* the loop variable `document` is bound to doc
Load(doc) ==
    /\ input_path' = doc.input_path
    /\ target_path' = doc.target_path
    /\ original_contents' = doc.original_contents
    /\ contents' = doc.contents

\* the rule the run has reached
CurrentRule == process.catalog[process.rule]

\* one call of the run: rule, on the loaded document, in pass process.pass
LogEntry(text_left) ==
    [pass |-> process.pass, doc |-> process.doc, rule |-> process.rule,
     name |-> CurrentRule.name, saw |-> contents, left |-> text_left]

\* the innermost loop: the next rule of the catalog is called on the document
\* if it belongs to the pass under way, and passed over if not
ProcessRule ==
    /\ process.style # "none"
    /\ ~raised
    /\ process.rule <= Len(process.catalog)
    /\ IF CurrentRule.pass_index = process.pass
       THEN /\ CallApplies(CurrentRule.name, _applies(CurrentRule.name))
            /\ process' = [process EXCEPT !.rule = @ + 1,
                                          !.log = Append(@, LogEntry(contents'))]
       ELSE /\ process' = [process EXCEPT !.rule = @ + 1]
            /\ UNCHANGED <<input_path, target_path, original_contents, contents,
                           root_directory, target_directory, macros, fs, documents,
                           context_target, calls, ran, raised, prev, trace>>
    /\ UNCHANGED scan

\* the catalog is through for this document: on to the next document
ProcessNextDocument ==
    /\ process.style # "none"
    /\ ~raised
    /\ process.rule > Len(process.catalog)
    /\ process.doc < Len(process.others)
    /\ Load(process.others[process.doc + 1])
    /\ process' = [process EXCEPT !.others[process.doc] = Loaded,
                                  !.doc = @ + 1, !.rule = 1]
    /\ UNCHANGED <<root_directory, target_directory, macros, fs, documents,
                   context_target, scan, calls, ran, raised, prev, trace>>

\* the pass is through for every document: on to the next pass, from the
\* first document again
ProcessNextPass ==
    /\ process.style # "none"
    /\ ~raised
    /\ process.rule > Len(process.catalog)
    /\ process.doc = Len(process.others)
    /\ process.pass < MaxPass
    /\ Load(IF process.doc = 1 THEN Loaded ELSE process.others[1])
    /\ process' = [process EXCEPT !.others[process.doc] = Loaded,
                                  !.pass = @ + 1, !.doc = 1, !.rule = 1]
    /\ UNCHANGED <<root_directory, target_directory, macros, fs, documents,
                   context_target, scan, calls, ran, raised, prev, trace>>

\* every pass is through
ProcessDone ==
    /\ process.style # "none"
    /\ process.rule > Len(process.catalog)
    /\ process.doc = Len(process.others)
    /\ process.pass = MaxPass

-----------------------------------------------------------------------------
(* The scenarios: the documents, settings and disks the behaviours start from. *)

RootDir == <<"/", "r">>
\* the linking document, "test dir/test.md" of the tests
DocPath == <<"/", "r", "/", "t", "/", "t", ".", "m", "d">>
\* its existing sibling, "sub dir/relative - file.md" of the tests
SiblingPath == <<"/", "r", "/", "s", " ", "d", "/", "f", ".", "m", "d">>

\* nothing on disk
FsNone == {}
\* the documentation tree on disk
FsTree == {<<<<"r">>>>, <<<<"r">>, <<"t">>>>, <<<<"r">>, <<"t">>, <<"t", ".", "m", "d">>>>, <<<<"r">>, <<"s", " ", "d">>>>, <<<<"r">>, <<"s", " ", "d">>, <<"f", ".", "m", "d">>>>}
\* the tree, with a copy of the sibling below the linking document's directory
FsTreeAndCopy == FsTree \cup {<<<<"r">>, <<"t">>, <<"s", " ", "d">>>>, <<<<"r">>, <<"t">>, <<"s", " ", "d">>, <<"f", ".", "m", "d">>>>}

\* s with every space percent-encoded
Enc(s) == Concat([j \in 1..Len(s) |-> IF s[j] = " " THEN <<"%", "2", "0">> ELSE <<s[j]>>])

\* the spellings of one target: plain, bracketed, encoded, bracketed and encoded
Spellings(t) == {t, <<"<">> \o t \o <<">">>, Enc(t), <<"<">> \o Enc(t) \o <<">">>}

\* file-relative, root-relative, with a fragment (as heading text and as slug),
\* and an external URL
RelTarget == <<".", ".", "/", "s", " ", "d", "/", "f", ".", "m", "d">>
RootRelTarget == <<"s", " ", "d", "/", "f", ".", "m", "d">>
Fragment == <<"#", "h", " ", "i">>
FragmentSlug == <<"#", "h", "-", "i">>
ExternalTarget == <<"h", ":", "/", "/", "g">>

LinkTargets == {RelTarget, RootRelTarget, RelTarget \o Fragment,
                RelTarget \o FragmentSlug, ExternalTarget}

Bracketed(t) == <<"<">> \o t \o <<">">>

LinkOf(spelling) == <<"[", "l", "]", "(">> \o spelling \o <<")">>

LinkPieces == {LinkOf(sp) : sp \in UNION {Spellings(t) : t \in LinkTargets}}

Separators == {<<>>, <<"x">>}

RECURSIVE LinkDocsOf(_)
\* the documents of exactly n links, with a separator between neighbours
LinkDocsOf(n) ==
    IF n = 1 THEN LinkPieces
    ELSE {d \o sep \o l : d \in LinkDocsOf(n - 1), sep \in Separators, l \in LinkPieces}

LinkDocs == UNION {LinkDocsOf(n) : n \in 1..MaxLinks}

EmptyTable == <<>>

Name(c) == <<c>>

\* author-like constants, one nested, one holding the tail of a token; a
\* capitalize-like function, a parameterless one, one that raises, one nested
MacroTable ==
    (Name("a") :> ConstMacro(<<"h", "i">>)) @@
    (Name("b") :> ConstMacro(<<"$", "{", "a", "}", "!">>)) @@
    (Name("c") :> ConstMacro(<<"{", "a", "}">>)) @@
    (Name("u") :> FunctionMacro(1, "upper", <<>>)) @@
    (Name("z") :> FunctionMacro(0, "value", <<"Z">>)) @@
    (Name("e") :> FunctionMacro(1, "raise", <<>>)) @@
    (Name("n") :> FunctionMacro(0, "value", <<"$", "{", "z", "(", ")", "}">>))

\* a smaller table: an empty constant, no token tail
SmallTable ==
    (Name("a") :> ConstMacro(<<>>)) @@
    (Name("b") :> ConstMacro(<<"$", "{", "a", "}", "!">>)) @@
    (Name("u") :> FunctionMacro(1, "upper", <<>>)) @@
    (Name("z") :> FunctionMacro(0, "value", <<"Z">>))

MacroPieces ==
    {<<"$", "{", "a", "}">>,
     <<"$", "{", "b", "}">>,
     <<"$", "{", "c", "}">>,
     <<"$", "{", "x", "}">>,
     <<"$", "{", "u", "}">>,
     <<"$", "{", "a", "(", "h", ")", "}">>,
     <<"$", "{", "u", "(", "h", ")", "}">>,
     <<"$", "{", "u", "(", "h", ",", "i", ")", "}">>,
     <<"$", "{", "u", "(", " ", "h", " ", ")", "}">>,
     <<"$", "{", "z", "(", ")", "}">>,
     <<"$", "{", "z", "(", " ", ")", "}">>,
     <<"$", "{", "e", "(", "h", ")", "}">>,
     <<"$", "{", "n", "(", ")", "}">>,
     <<"$", "{", "x", "(", "h", ")", "}">>,
     <<"t">>,
     <<"$">>}

RECURSIVE MacroDocsOf(_)
MacroDocsOf(n) ==
    IF n = 1 THEN MacroPieces
    ELSE {d \o p : d \in MacroDocsOf(n - 1), p \in MacroPieces}

MacroDocs == UNION {MacroDocsOf(n) : n \in 1..MaxPieces}

\* documents of the rule scenario: with and without a dot, in the root and below
RulePaths == {<<"/", "r", "/", "a", "/", "b", ".", "m", "d">>,
              <<"/", "r", "/", "c", ".", "m", "d">>,
              <<"/", "r", "/", "a", "/", "L">>,
              <<"/", "r", "/", "a", "/", "a", ".", "m", "d">>,
              <<"/", "r", "/", "a", "/", "R", "e", "a", "d", "M", "E", ".", "m", "d">>,
              <<"/", "r", "/", "a", "/", "b", ".", "t", "x", "t">>}
OtherDir == <<"/", "o">>
FsRules == {<<<<"r">>>>, <<<<"r">>, <<"a">>>>, <<<<"r">>, <<"a">>, <<"b", ".", "m", "d">>>>, <<<<"r">>, <<"c", ".", "m", "d">>>>}
RuleDoc == <<"$", "{", "a", "}", "[", "l", "]", "(", "b", ".", "m", "d", ")">>

\* the lines of the table-of-contents scenario: the placeholder, headings of
\* three depths (one indented), plain text, the placeholder inside a line
TocPieces ==
    {TABLE_OF_CONTENTS_VARIABLE,
     <<"#", " ", "A">>,
     <<"#", "#", " ", "B">>,
     <<" ", "#", "#", "#", " ", "C">>,
     <<"t">>,
     <<"x">> \o TABLE_OF_CONTENTS_VARIABLE}

RECURSIVE TocDocsOf(_)
\* the documents of exactly n lines
TocDocsOf(n) ==
    IF n = 1 THEN TocPieces
    ELSE {d \o <<NL>> \o l : d \in TocDocsOf(n - 1), l \in TocPieces}

TocDocs == UNION {TocDocsOf(n) : n \in 1..MaxTocLines}

\* the lines of the changes scenario: text, and lines that open with the
\* characters the diff tags its lines with
DiffPieces == {<<"t">>, <<"u">>, <<"-", "-">>, <<"+", "+">>}

RECURSIVE DiffDocsOf(_)
\* the documents of exactly n lines
DiffDocsOf(n) ==
    IF n = 1 THEN DiffPieces \cup {<<>>}
    ELSE {d \o <<NL>> \o l : d \in DiffDocsOf(n - 1), l \in DiffPieces}

DiffDocs == UNION {DiffDocsOf(n) : n \in 1..MaxDiffLines}

\* the macros of the processing scenario: one expands to a heading
ProcessTable ==
    (Name("a") :> ConstMacro(<<"h", "i">>)) @@
    (Name("h") :> ConstMacro(<<"#", " ", "A">>))

\* the linking document: a placeholder above a macro, and a link to the sibling
ProcessText ==
    TABLE_OF_CONTENTS_VARIABLE \o <<NL, "$", "{", "h", "}", NL>> \o LinkOf(Enc(RelTarget))

NewDocument(path, data) ==
    [input_path |-> path, target_path |-> path, original_contents |-> data,
     contents |-> data]

\* the documents of a run, in the order of the context
ProcessDocuments ==
    {<<NewDocument(DocPath, text), NewDocument(path, <<"$", "{", "a", "}">>)>> :
        text \in {ProcessText, <<"t">>},
        path \in {SiblingPath, <<"/", "r", "/", "t", "/", "L">>}}

\* rules of a custom catalog: the functions of the standard rules, with pass
\* indexes of their own
CustomCatalogs ==
    {<<DocumentRule("create_table_of_contents", MaxPass),
       DocumentRule("apply_macros", FIRST)>>,
     <<DocumentRule("santize_internal_links", MaxPass),
       DocumentRule("move_to_target_dir_relative", FIRST),
       DocumentRule("apply_macros", MaxPass)>>}

Styles == {"GITHUB", "CONFLUENCE", "CUSTOM"}

CatalogsOf(style) ==
    IF style = "CUSTOM" THEN {GetRulesForStyle(style) \o c : c \in CustomCatalogs}
    ELSE {GetRulesForStyle(style)}

\* the macros of the scan scenario: a and b end; c leads to d, d expands to
\* its own token, g to more than its own token, l and t to each other; z ends,
\* f returns its own call
ScanTable ==
    (Name("a") :> ConstMacro(<<"h", "i">>)) @@
    (Name("b") :> ConstMacro(<<"$", "{", "a", "}", "!">>)) @@
    (Name("c") :> ConstMacro(<<"$", "{", "d", "}">>)) @@
    (Name("d") :> ConstMacro(<<"$", "{", "d", "}">>)) @@
    (Name("g") :> ConstMacro(<<"x", "$", "{", "g", "}">>)) @@
    (Name("l") :> ConstMacro(<<"$", "{", "t", "}">>)) @@
    (Name("t") :> ConstMacro(<<"$", "{", "l", "}">>)) @@
    (Name("z") :> FunctionMacro(0, "value", <<"Z">>)) @@
    (Name("n") :> FunctionMacro(0, "value", <<"$", "{", "z", "(", ")", "}">>)) @@
    (Name("f") :> FunctionMacro(0, "value", <<"$", "{", "f", "(", ")", "}">>))

ScanPieces ==
    {<<"$", "{", "a", "}">>,
     <<"$", "{", "b", "}">>,
     <<"$", "{", "c", "}">>,
     <<"$", "{", "d", "}">>,
     <<"$", "{", "g", "}">>,
     <<"$", "{", "l", "}">>,
     <<"$", "{", "x", "}">>,
     <<"$", "{", "z", "(", ")", "}">>,
     <<"$", "{", "n", "(", ")", "}">>,
     <<"$", "{", "f", "(", ")", "}">>,
     <<"$", "{", "f", "(", "h", ")", "}">>,
     <<"t">>,
     LinkOf(Bracketed(Enc(RelTarget))),
     LinkOf(RelTarget),
     LinkOf(ExternalTarget)}

RECURSIVE ScanDocsOf(_)
ScanDocsOf(n) ==
    IF n = 1 THEN ScanPieces
    ELSE {d \o p : d \in ScanDocsOf(n - 1), p \in ScanPieces}

ScanDocs == UNION {ScanDocsOf(n) : n \in 1..MaxScanPieces}

History0 ==
    /\ context_target = <<>>
    /\ calls = <<>>
    /\ ran = FALSE
    /\ raised = FALSE
    /\ prev = [contents |-> contents, target_path |-> target_path]
    /\ trace = NoTrace

InitLinks ==
    /\ input_path = DocPath
    /\ target_path = input_path
    /\ contents \in LinkDocs
    /\ original_contents = contents
    /\ root_directory = RootDir
    /\ target_directory = <<>>
    /\ macros = EmptyTable
    /\ fs \in {FsNone, FsTree, FsTreeAndCopy}
    /\ documents = {DocPath, SiblingPath}
    /\ process = NoProcess
    /\ scan = NoScan
    /\ History0

InitMacros ==
    /\ input_path = DocPath
    /\ target_path = input_path
    /\ contents \in MacroDocs
    /\ original_contents = contents
    /\ root_directory = RootDir
    /\ target_directory = <<>>
    /\ macros \in {MacroTable, SmallTable}
    /\ fs = FsNone
    /\ documents = {DocPath}
    /\ process = NoProcess
    /\ scan = NoScan
    /\ History0

InitRules ==
    /\ input_path \in RulePaths
    /\ target_path = input_path
    /\ contents = RuleDoc
    /\ original_contents = contents
    /\ root_directory = RootDir
    /\ target_directory \in {<<>>, RootDir, OtherDir}
    /\ macros = MacroTable
    /\ fs = FsRules
    /\ documents = {input_path}
    /\ process = NoProcess
    /\ scan = NoScan
    /\ History0

InitToc ==
    /\ input_path = DocPath
    /\ target_path = input_path
    /\ contents \in TocDocs
    /\ original_contents = contents
    /\ root_directory = RootDir
    /\ target_directory = <<>>
    /\ macros = EmptyTable
    /\ fs = FsNone
    /\ documents = {DocPath}
    /\ process = NoProcess
    /\ scan = NoScan
    /\ History0

InitChanges ==
    /\ input_path = DocPath
    /\ target_path = input_path
    /\ contents \in DiffDocs
    /\ original_contents = contents
    /\ root_directory = RootDir
    /\ target_directory = <<>>
    /\ macros = EmptyTable
    /\ fs = FsNone
    /\ documents = {DocPath}
    /\ process = NoProcess
    /\ scan = NoScan
    /\ History0

InitProcess ==
    \E style \in Styles : \E catalog \in CatalogsOf(style) : \E docs \in ProcessDocuments :
        /\ input_path = docs[1].input_path
        /\ target_path = docs[1].target_path
        /\ contents = docs[1].contents
        /\ original_contents = docs[1].original_contents
        /\ root_directory = RootDir
        /\ target_directory \in {<<>>, OtherDir}
        /\ macros = ProcessTable
        /\ fs = FsTree
        /\ documents = {docs[n].input_path : n \in 1..Len(docs)}
        /\ process = [style |-> style, catalog |-> catalog, pass |-> FIRST, doc |-> 1,
                      rule |-> 1, others |-> docs, log |-> <<>>]
        /\ scan = NoScan
        /\ History0

InitScan ==
    /\ input_path = DocPath
    /\ target_path = input_path
    /\ contents \in ScanDocs
    /\ original_contents = contents
    /\ root_directory = RootDir
    /\ target_directory = <<>>
    /\ macros = ScanTable
    /\ fs = FsTree
    /\ documents = {DocPath, SiblingPath}
    /\ process = NoProcess
    /\ scan \in {[loop |-> loop, pointer |-> 0, pc |-> "search", match |-> NoMatch,
                     steps |-> 0] :
                    loop \in ScanLoops}
    /\ History0

Init == InitLinks \/ InitMacros \/ InitRules \/ InitToc

NextLinks == Call("santize_internal_links")

NextMacros == Call("apply_macros")

NextToc == Call("create_table_of_contents")

NextChanges == \E text \in DiffDocs : CustomRule(text)

NextProcess == ProcessRule \/ ProcessNextDocument \/ ProcessNextPass

NextScan == ScanSearch \/ ScanBody

Next == \E rule \in Rules : Call(rule)

\* link sanitization, applied up to MaxCalls times to one document
SpecLinks == InitLinks /\ [][NextLinks]_vars

\* apply_macros on one document
SpecMacros == InitMacros /\ [][NextMacros]_vars

\* any rules, in any order, on one document
SpecRules == InitRules /\ [][Next]_vars

\* create_table_of_contents on one document
SpecToc == InitToc /\ [][NextToc]_vars

\* a document whose contents a custom rule reassigns
SpecChanges == InitChanges /\ [][NextChanges]_vars

\* a processing run over two documents
SpecProcess == InitProcess /\ [][NextProcess]_vars

\* a scan loop on one document
SpecScan == InitScan /\ [][NextScan]_vars

Spec == Init /\ [][Next]_vars

-----------------------------------------------------------------------------
(* Vocabulary of the properties. *)

LastRule == calls[Len(calls)]

Called(rule) == calls # <<>> /\ LastRule = rule

\* the decoded target is on disk, seen from the linking document's directory
OnDisk(link) == PathExists(ResolveLink(Parent(PathParts(input_path)), link))

\* text with the span [start, end) replaced (0-based, end exclusive)
Spliced(text, start, end, replacement) ==
    SubSeq(text, 1, start) \o replacement \o SubSeq(text, end + 1, Len(text))

\* the first link of text at or after 0-based offset from
LinkFrom(text, from) ==
    LET hits == {i \in (from + 1)..Len(text) : MatchLinkAt(text, i).found}
    IN IF hits = {} THEN NoMatch
       ELSE MatchLinkAt(text, CHOOSE i \in hits : \A k \in hits : i <= k)

RECURSIVE CanonicalAll(_, _)
\* text with every link from offset `from` on, whose target is on disk, in
\* canonical form; each link is visited once, left to right
CanonicalAll(text, from) ==
    LET m == LinkFrom(text, from)
        form == Canonical(m.g1, unquote(m.g2))
    IN IF ~m.found THEN text
       ELSE IF OnDisk(unquote(m.g2))
            THEN CanonicalAll(Spliced(text, m.start, m.end, form), m.start + Len(form))
            ELSE CanonicalAll(text, m.end)

RECURSIVE PartialRewrites(_, _)
\* the texts that differ from text only in that some of its links whose
\* target is on disk are in canonical form
PartialRewrites(text, from) ==
    LET m == LinkFrom(text, from)
        form == Canonical(m.g1, unquote(m.g2))
    IN IF ~m.found THEN {text}
       ELSE PartialRewrites(text, m.end) \cup
            (IF OnDisk(unquote(m.g2))
             THEN PartialRewrites(Spliced(text, m.start, m.end, form), m.start + Len(form))
             ELSE {})

\* the offsets of the links of text
LinkStarts(text) == {i \in 1..Len(text) : MatchLinkAt(text, i).found}

SomeLinkOnDisk(text) ==
    \E i \in LinkStarts(text) : OnDisk(unquote(MatchLinkAt(text, i).g2))

SomeLinkNotOnDisk(text) ==
    \E i \in LinkStarts(text) : ~OnDisk(unquote(MatchLinkAt(text, i).g2))


\* a constant-form token whose name maps to a plain string
ResolvableConst(m) == m.found /\ m.g1 \in DOMAIN macros /\ ~callable(macros[m.g1])

\* a call-form token of a callable that accepts the token's arguments
ResolvableCall(m) ==
    /\ m.found
    /\ m.g1 \in DOMAIN macros
    /\ callable(macros[m.g1])
    /\ Invoke(macros[m.g1], _extract_args(m.g2)).ok

\* the token at [m.start, m.end) has its "${" before a replacement offset
\* and its end after it
Straddles(m, splices) == \E q \in splices : m.start < q /\ q < m.end

\* the unresolvable macro occurrences of text, as token texts
UnresolvedTokens(text) ==
    {SubSeq(text, i, MatchConstAt(text, i).end) :
        i \in {j \in 1..Len(text) :
                 MatchConstAt(text, j).found /\ ~ResolvableConst(MatchConstAt(text, j))}}
    \cup
    {SubSeq(text, i, MatchFunctionAt(text, i).end) :
        i \in {j \in 1..Len(text) :
                 MatchFunctionAt(text, j).found /\ ~ResolvableCall(MatchFunctionAt(text, j))}}

Occurrences(tok, text) ==
    Cardinality({j \in 1..Len(text) :
                   j + Len(tok) - 1 <= Len(text) /\ SubSeq(text, j, j + Len(tok) - 1) = tok})

\* the unresolvable occurrence text starts with, if any
LeadingUnresolved(text) ==
    LET c == MatchConstAt(text, 1)
        f == MatchFunctionAt(text, 1)
    IN IF c.found /\ ~ResolvableConst(c) THEN c
       ELSE IF f.found /\ ~ResolvableCall(f) THEN f
       ELSE NoMatch

\* what apply_macros makes of a text
Applied(text) == FunctionPass(_replace_const_macros(text)).contents

\* the components of path below the root directory, ".md" stripped
ChainOf(path) ==
    SplitOn(Replace(relpath(path, root_directory), <<".", "m", "d">>, <<>>), "/")

\* a document named README.md, or after the directory that holds it
IsIndex(path) ==
    \/ Lower(basename(path)) = <<"r", "e", "a", "d", "m", "e", ".", "m", "d">>
    \/ basename(path) = basename(dirname(path)) \o <<".", "m", "d">>

\* the flat name of a document: version label and chain, joined by " - "
FlatName(path) ==
    JoinWith(<<version_name>> \o (IF IsIndex(path) THEN ButLast(ChainOf(path))
                                  ELSE ChainOf(path)),
             <<" ", "-", " ">>) \o <<".", "m", "d">>

\* the number of leading "#" of a heading line
Depth(line) == Len(line) - Len(LStripHash(line))

\* the entry of a heading at `indent` columns: "- " and the link to its title
EntryAt(indent, title) ==
    Rep(indent, " ") \o <<"-", " ">> \o format_markdown_link(title, <<"#">> \o title)

\* the table of a sequence of heading lines: entry j at twice its depth less
\* one, less the smallest such indent
TableOf(headings) ==
    LET ind == [j \in 1..Len(headings) |-> 2 * (Depth(headings[j]) - 1)]
        least == IF headings = <<>> THEN 0
                 ELSE CHOOSE n \in {ind[j] : j \in 1..Len(headings)} :
                          \A j \in 1..Len(headings) : n <= ind[j]
    IN JoinWith([j \in 1..Len(headings) |->
                     EntryAt(ind[j] - least, Strip(LStripHash(headings[j])))],
                <<NL>>)

\* text with the placeholder of each line replaced by the table of the
\* headings below that line
WithTables(text) ==
    LET lines == SplitOn(text, NL)
    IN JoinWith([i \in 1..Len(lines) |->
                     Replace(lines[i], TABLE_OF_CONTENTS_VARIABLE,
                             TableOf(Headings(SubSeq(lines, i + 1, Len(lines)))))],
                <<NL>>)

\* the unified diff of the original against the current contents, without
\* its three header lines
DiffLines ==
    LET diff == unified_diff(SplitOn(original_contents, NL), SplitOn(contents, NL))
    IN SubSeq(diff, 4, Len(diff))

\* the calls of the run made on document d, in order
CallsOn(d) == SelectSeq(process.log, LAMBDA e : e.doc = d)

\* the names of the rules called on document d, in order
NamesOn(d) == [n \in 1..Len(CallsOn(d)) |-> CallsOn(d)[n].name]

\* document d of the run, as it is now
DocumentNow(d) == IF d = process.doc THEN Loaded ELSE process.others[d]

IsPrefix(p, q) == Len(p) <= Len(q) /\ SubSeq(q, 1, Len(p)) = p

\* the rule at catalog position r was called on document d before call m
CalledBefore(d, r, m) == \E n \in 1..(m - 1) : process.log[n].doc = d /\ process.log[n].rule = r

\* the macros of the scan scenario of which text holds a token the loop
\* replaces: a plain string for the constant pass, a callable that takes the
\* token's arguments for the function pass
TokensIn(loop, text) ==
    IF loop = "_replace_const_macros"
    THEN {MatchConstAt(text, i).g1 :
            i \in {j \in 1..Len(text) :
                     /\ MatchConstAt(text, j).found
                     /\ MatchConstAt(text, j).g1 \in DOMAIN ScanTable
                     /\ ~callable(ScanTable[MatchConstAt(text, j).g1])}}
    ELSE IF loop = "_replace_function_macros"
         THEN {MatchFunctionAt(text, i).g1 :
                 i \in {j \in 1..Len(text) :
                          /\ MatchFunctionAt(text, j).found
                          /\ MatchFunctionAt(text, j).g1 \in DOMAIN ScanTable
                          /\ callable(ScanTable[MatchFunctionAt(text, j).g1])
                          /\ Invoke(ScanTable[MatchFunctionAt(text, j).g1],
                                    _extract_args(MatchFunctionAt(text, j).g2)).ok}}
         ELSE {}

\* the text a macro of the scan scenario expands to
ExpansionOf(name) == ScanTable[name].value

RECURSIVE Closure(_, _)
\* the macros that come to be expanded once those of S are
Closure(loop, S) ==
    LET T == S \cup UNION {TokensIn(loop, ExpansionOf(n)) : n \in S}
    IN IF T = S THEN S ELSE Closure(loop, T)

\* the macro expands, directly or through further expansions, into a token
\* of itself
SelfExpanding(loop, name) == name \in Closure(loop, TokensIn(loop, ExpansionOf(name)))

\* the scans of the scenario in which a token of a self-expanding macro is in
\* the text or comes into it
SelfExpandingScans ==
    {sc \in ScanLoops \X ScanDocs :
        \E name \in Closure(sc[1], TokensIn(sc[1], sc[2])) : SelfExpanding(sc[1], name)}

MeetsSelfExpanding == <<scan.loop, original_contents>> \in SelfExpandingScans

ScanDone == scan.pc = "done"

-----------------------------------------------------------------------------
(* The properties. *)

\* C1: applying santize_internal_links a second time leaves the contents the
\* first application left (the disk does not change between the runs).
C1_Idempotent ==
    (Len(calls) >= 2 /\ calls[1] = "santize_internal_links"
                     /\ LastRule = "santize_internal_links")
        => contents = prev.contents

\* C2: after santize_internal_links every link of the text it was called on
\* whose decoded target is on disk is in the canonical form, whatever the
\* number of links and the text between them.
C2_EveryLinkOnDiskCanonical ==
    Called("santize_internal_links") => contents = CanonicalAll(prev.contents, 0)

C4_RootRelativeRewritten ==
    (/\ Len(calls) = 1
     /\ LastRule = "santize_internal_links"
     /\ original_contents \in {LinkOf(Bracketed(RootRelTarget)), LinkOf(Enc(RootRelTarget)),
                               LinkOf(Bracketed(Enc(RootRelTarget)))}
     /\ os_path_join(root_directory, RootRelTarget) \in documents
     /\ OnDisk(RelTarget))
        => contents = LinkOf(Bracketed(RelTarget))

\* C5: a link to an existing file with a '#fragment', the fragment spelled as
\* the heading text, percent-encoded or as a slug, bracketed or not, is
\* rewritten to the canonical form with the fragment as the heading text.
C5_FragmentRewritten ==
    (/\ Len(calls) = 1
     /\ LastRule = "santize_internal_links"
     /\ OnDisk(RelTarget)
     /\ original_contents \in
            {LinkOf(sp) : sp \in {Bracketed(RelTarget \o Fragment),
                                  Enc(RelTarget \o Fragment),
                                  Bracketed(Enc(RelTarget \o Fragment)),
                                  Enc(RelTarget \o FragmentSlug),
                                  Bracketed(Enc(RelTarget \o FragmentSlug))}})
        => contents = LinkOf(Bracketed(RelTarget \o Fragment))

\* C6 as stated: when the constant-macro pass ends the text holds no ${name}
\* token whose name maps to a plain string.
C6_NoResolvableConstLeft ==
    Called("apply_macros") =>
        \A i \in 1..Len(trace.const_out) :
            ~ResolvableConst(MatchConstAt(trace.const_out, i))

\* C6 amended: when the constant-macro pass ends, the only ${name} tokens left
\* whose name maps to a plain string are tokens that straddle the start of a
\* replacement; a token alone in the text is replaced by its string.
C6_NoResolvableConstLeftButStraddling ==
    Called("apply_macros") =>
        /\ \A i \in 1..Len(trace.const_out) :
               ResolvableConst(MatchConstAt(trace.const_out, i))
                   => Straddles(MatchConstAt(trace.const_out, i), trace.const_splices)
        /\ prev.contents = <<"$", "{", "a", "}">> => trace.const_out = macros[Name("a")].value

\* C6 witness: ${b} expands to "${a}!", the rescan expands ${a} in turn, and
\* the unknown ${x} after it stays.
C6_Witness ==
    /\ Called("apply_macros")
    /\ macros = MacroTable
    /\ prev.contents = <<"$", "{", "b", "}">> \o <<"$", "{", "x", "}">>
    /\ trace.const_out = <<"h", "i">> \o <<"!">> \o <<"$", "{", "x", "}">>
    /\ trace.const_splices = {0}

\* C7: apply_macros raises nothing; an unresolvable macro occurrence (unknown
\* name, callable in constant form, non-callable in call form, callable that
\* raises or is given the wrong number of arguments) stays in the text as it
\* was, and the text after it is processed as if it stood alone.
C7_UnresolvedLeftAndPassed ==
    Called("apply_macros") =>
        /\ ~raised
        /\ \A tok \in UnresolvedTokens(prev.contents) :
               Occurrences(tok, contents) >= Occurrences(tok, prev.contents)
        /\ LeadingUnresolved(prev.contents).found =>
               contents = SubSeq(prev.contents, 1, LeadingUnresolved(prev.contents).end)
                          \o Applied(SliceFrom(prev.contents,
                                               LeadingUnresolved(prev.contents).end))

\* C7 witness: a callable that raises, followed by a resolvable call.
C7_Witness ==
    /\ Called("apply_macros")
    /\ macros = MacroTable
    /\ prev.contents = <<"$", "{", "e", "(", "h", ")", "}">> \o <<"$", "{", "u", "(", "h", ")", "}">>
    /\ contents = <<"$", "{", "e", "(", "h", ")", "}">> \o <<"H">>
    /\ ~raised

\* C8: the arguments passed to a function macro are the comma-separated
\* pieces of the token's argument text, each trimmed; an empty argument text,
\* one of whitespace only included, gives no argument at all.
C8_WhitespaceOnlyIsNoArgument ==
    Called("apply_macros") =>
        \A inv \in trace.invocations :
            inv.args = IF Strip(inv.raw) = <<>> THEN <<>>
                       ELSE StripAll(SplitOn(inv.raw, ","))

\* C9: a rule runs its transform exactly when the document's input path
\* matches its filter, wherever earlier rules moved target_path; a call whose
\* filter does not match changes nothing and does not raise; a "*.md" rule
\* never runs on an input path that does not end in ".md".
C9_FilterOnInputPath ==
    calls # <<>> =>
        /\ ran <=> fnmatch(input_path, file_filter(LastRule))
        /\ ~fnmatch(input_path, file_filter(LastRule)) =>
               /\ contents = prev.contents
               /\ target_path = prev.target_path
               /\ ~raised
        /\ (ran /\ file_filter(LastRule) = <<"*", ".", "m", "d">>) =>
               EndsWith(input_path, <<".", "m", "d">>)
        /\ (Len(calls) = 1 /\ LastRule = "apply_macros"
              /\ EndsWith(input_path, <<".", "m", "d">>)) => contents # prev.contents

\* C9 witness: target_path was moved off the input path, and apply_macros
\* then ran on the document all the same.
C9_Witness ==
    /\ Len(calls) = 2
    /\ calls[1] = "move_to_target_dir_relative"
    /\ calls[2] = "apply_macros"
    /\ target_path # input_path
    /\ ~EndsWith(target_path, <<".", "m", "d">>)
    /\ ran
    /\ contents # prev.contents

\* C11: after rename_uniquely_for_confluence ran on a ".md" document, its
\* target_path is the file, directly under the target directory, named by the
\* version label, the directory chain below the root and (unless the document
\* is the index of its directory) its own name, joined by " - ", with ".md".
C11_FlatUniqueName ==
    (Called("rename_uniquely_for_confluence") /\ ran /\ ~raised) =>
        target_path = os_path_join(target_directory, FlatName(input_path))

\* C12: create_table_of_contents replaces the placeholder by one entry per
\* heading line below the placeholder's line, in order; each entry is indented
\* by twice (leading "#" less one) less the smallest such indent, so that the
\* shallowest entry starts with "- " in column 0.
C12_TableOfHeadingsBelow ==
    (Called("create_table_of_contents") /\ ran) => contents = WithTables(prev.contents)

\* C13: changes is empty when contents equals original_contents; otherwise it
\* is every line of the unified diff but the three header lines, in order, each
\* ended by a newline, and so it is empty only for an unchanged document.
C13_ChangesIsDiffBody ==
    /\ unchanged => changes = <<>>
    /\ ~unchanged => changes = Concat([n \in 1..Len(DiffLines) |-> DiffLines[n] \o <<NL>>])
    /\ changes = <<>> => unchanged

\* C14: in a run, every rule is called in the pass of its pass index; the
\* passes follow each other in ascending order, and when a rule of a later
\* pass is called every rule of every earlier pass has been called on every
\* document; within a pass the rules are called on a document in catalog order;
\* each call sees the text the call before it on that document left (the
\* original text for the first); the wiki-export catalog calls table of
\* contents, macros, link sanitization and renaming in this order; a run that
\* ends without an exception has called every rule once on every document.
C14_RuleOrder ==
    process.style # "none" =>
        /\ \A n \in 1..Len(process.log) :
               process.catalog[process.log[n].rule].pass_index = process.log[n].pass
        /\ \A n \in 1..Len(process.log) : \A m \in (n + 1)..Len(process.log) :
               /\ process.log[n].pass <= process.log[m].pass
               /\ (process.log[n].pass = process.log[m].pass
                     /\ process.log[n].doc = process.log[m].doc)
                      => process.log[n].rule < process.log[m].rule
        /\ \A m \in 1..Len(process.log) : \A d \in 1..Len(process.others) :
               \A r \in 1..Len(process.catalog) :
                   process.catalog[r].pass_index < process.log[m].pass => CalledBefore(d, r, m)
        /\ \A d \in 1..Len(process.others) : \A n \in 1..Len(CallsOn(d)) :
               CallsOn(d)[n].saw = IF n = 1 THEN DocumentNow(d).original_contents
                                   ELSE CallsOn(d)[n - 1].left
        /\ \A d \in 1..Len(process.others) :
               /\ CallsOn(d) # <<>> => DocumentNow(d).contents = CallsOn(d)[Len(CallsOn(d))].left
               /\ process.style = "CONFLUENCE" =>
                      IsPrefix(NamesOn(d), <<"create_table_of_contents", "apply_macros",
                                             "santize_internal_links",
                                             "rename_uniquely_for_confluence">>)
        /\ (ProcessDone /\ ~raised) =>
               \A d \in 1..Len(process.others) : \A r \in 1..Len(process.catalog) :
                   Cardinality({n \in 1..Len(process.log) :
                                  process.log[n].doc = d /\ process.log[n].rule = r}) = 1

\* C14 witness: a custom catalog that lists the table of contents (second
\* pass) before the macros (first pass) has run to its end: on the first
\* document the macros ran first, so the table lists the heading they made.
C14_Witness ==
    /\ ProcessDone
    /\ ~raised
    /\ process.style = "CUSTOM"
    /\ NamesOn(1) = <<"apply_macros", "create_table_of_contents">>
    /\ NamesOn(2) = <<"apply_macros", "create_table_of_contents">>
    /\ process.log[2].doc = 2 /\ process.log[3].doc = 1
    /\ process.others[1].original_contents = ProcessText
    /\ process.others[1].contents =
           <<" ", "-", " ", "[", "A", "]", "(", "#", "A", ")", NL, "#", " ", "A", NL>>
           \o LinkOf(Enc(RelTarget))

\* C15 as stated: when a macro of the document expands into a token of itself
\* the text grows without bound: after the MaxSteps steps the scan is followed
\* for, the text is longer than the text the pass began on.
C15_SelfExpansionGrows ==
    (MeetsSelfExpanding /\ scan.steps = MaxSteps) => Len(contents) > Len(original_contents)

\* C15 amended: the link scan ends on every document, and a macro pass ends
\* when no token of a self-expanding macro is in the text or comes into it:
\* such a scan is never cut short, so it goes on until it is done; a macro
\* pass that meets a self-expanding macro is never done; the text grows with
\* every iteration when the expansion is longer than the token (${g} to
\* "x${g}"), while a macro that expands to its own token is replaced over and
\* over in an unchanged text.
C15_ScanEndsUnlessSelfExpanding ==
    /\ (~MeetsSelfExpanding /\ scan.loop # "none" /\ ~ScanDone) =>
           /\ scan.steps < MaxSteps
           /\ scan.pc = "body" =>
                  Len(LoopBody(scan.loop, contents, scan.match).contents)
                      <= Len(original_contents) + MaxGrowth
    /\ MeetsSelfExpanding => ~ScanDone
    /\ (scan.loop = "_replace_const_macros" /\ original_contents = <<"$", "{", "g", "}">>)
           => Len(contents) = Len(original_contents) + (scan.steps \div 2)
    /\ (scan.loop = "_replace_const_macros" /\ original_contents = <<"$", "{", "d", "}">>)
           => contents = original_contents
    /\ (scan.loop = "_replace_function_macros"
          /\ original_contents = <<"$", "{", "f", "(", ")", "}">>)
           => contents = original_contents

\* C15 witness: ${d} was replaced by its expansion, ${d}, over and over, and
\* is found once more when the scan is no longer followed.
C15_Witness ==
    /\ scan.loop = "_replace_const_macros"
    /\ original_contents = <<"$", "{", "d", "}">>
    /\ contents = original_contents
    /\ scan.steps = MaxSteps
    /\ scan.pointer = 0
    /\ ~ScanDone

\* C10: with a target directory configured that is not the root,
\* move_to_target_dir_relative sets target_path to the target directory
\* joined with the input path relative to the root, whatever the file name;
\* otherwise it leaves target_path unchanged.
C10_MirrorsUnderTarget ==
    Called("move_to_target_dir_relative") =>
        target_path = IF target_directory # <<>> /\ target_directory # root_directory
                      THEN os_path_join(target_directory,
                                        relpath(input_path, root_directory))
                      ELSE prev.target_path

====
